---- MODULE Spec2Model ----
(***************************************************************************)
(* A model of the beat-analysis and timeline-synthesis core of clipxmlai:  *)
(*   - generateTimeline / findBestSourceRange   (src/src/utils/auto-editor.ts)   *)
(*   - detectBeats / calculateBPM               (src/src/hooks/useAudioAnalysis.ts) *)
(*   - the useAudioAnalysis hook and its store  (same file, store in       *)
(*     src/src/components/Storyboard.tsx)                                  *)
(*                                                                         *)
(* Times are exact integers in milliseconds (0.05 s = 50, 0.01 s = 10).    *)
(* A Math.random() result used as a fraction is a nondeterministic choice *)
(* k/MaxDraw, k in 0..MaxDraw-1; where the code floors it to an integer   *)
(* (step delta, candidate offset, media index) every integer outcome is   *)
(* a choice.                                                              *)
(***************************************************************************)
EXTENDS Integers, Sequences, FiniteSets, TLC

VARIABLES
    \* ---- generateTimeline(media, audio, settings) ----
    media,              \* argument: sequence of [id, type, duration]
    audio,              \* argument: AudioTrack record, or NoAudio
    settings,           \* argument: SyncSettings record
    pc,                 \* position inside generateTimeline
    beats,              \* local `beats` (selected beat list)
    cutPoints,          \* local `cutPoints` / `cutPointsList`
    currentBeatIndex,   \* local of the beat-locked loop (0-based, as in the code)
    currentPoint,       \* local of the metronome loop
    i,                  \* index of the clip-generation for loop (0-based)
    videoIdx,           \* media cycling counter of the beat modes
    currentTime,        \* legacy loop position
    nextMediaIdx,       \* legacy sequential-once counter
    timeline,           \* the TimelineClip[] being built
    usedMediaSegments,  \* Map mediaId -> used source ranges
    nullSignalled,      \* history: ids for which findBestSourceRange returned null
    \* ---- detectBeats(audioBuffer, algorithm, userSensitivityMs), calculateBPM(beats) ----
    audioBuffer,        \* [amps, sampleRate]: channel 0 as runs of hopSize equal samples
    algorithm,          \* argument of detectBeats
    userSensitivityMs,  \* argument of detectBeats
    peaks,              \* result of detectBeats, as sample offsets (timestamp * sampleRate)
    bpmBeats,           \* argument of calculateBPM (ms)
    bpm,                \* result of calculateBPM
    dpc,                \* position in the analysis pipeline
    \* ---- useAudioAnalysis and the store ----
    storeAudio,         \* store.audio: NoAudio or [id, buffer, beats, bpm, detectedWithAlgorithm]
    syncSettings,       \* store.syncSettings: [algorithm, beatSensitivity]
    status,             \* store.status
    processingRef,      \* processingRef.current
    lastProcessedRef,   \* lastProcessedRef.current
    tasks,              \* pending asynchronous continuations (decode, filter render, timer)
    nextAudioId         \* ids are fresh UUIDs: the next unused one

tlvars == <<media, audio, settings, pc, beats, cutPoints, currentBeatIndex,
            currentPoint, i, videoIdx, currentTime, nextMediaIdx, timeline,
            usedMediaSegments, nullSignalled>>

detvars == <<audioBuffer, algorithm, userSensitivityMs, peaks, bpmBeats, bpm, dpc>>

hookvars == <<storeAudio, syncSettings, status, processingRef, lastProcessedRef, tasks,
              nextAudioId>>

vars == <<tlvars, detvars, hookvars>>

----------------------------------------------------------------------------
(* Bounds *)

\* Math.random() takes the values k/MaxDraw, k = 0 .. MaxDraw-1
MaxDraw == 2

Draws == 0 .. (MaxDraw - 1)

(* Generic helpers *)

Min(a, b) == IF a < b THEN a ELSE b
Max(a, b) == IF a > b THEN a ELSE b
Last(s) == s[Len(s)]

NoAudio == [none |-> TRUE]
Null == -1              \* findBestSourceRange's `null`

----------------------------------------------------------------------------
(* findBestSourceRange                                                     *)

\* The boolean the call sites pass (settings.cropMode === 'smart'), as a JS value
JsBool(b) == IF b THEN "true" ELSE "false"

\* variant: no margin
MarginNone(mediaDuration) == 0

\* const margin = mediaDuration * 0.05
Margin(mediaDuration) == (mediaDuration * 5) \div 100
EffectiveDuration(mediaDuration) == mediaDuration - 2 * Margin(mediaDuration)

\* [...usedRanges].sort((a, b) => a.start - b.start): stable insertion by start
RECURSIVE InsertByStart(_, _)
InsertByStart(sorted, u) ==
    IF sorted = <<>> THEN <<u>>
    ELSE IF Head(sorted).start <= u.start
         THEN <<Head(sorted)>> \o InsertByStart(Tail(sorted), u)
         ELSE <<u>> \o sorted

RECURSIVE SortedUsed(_)
SortedUsed(usedRanges) ==
    IF usedRanges = <<>> THEN <<>>
    ELSE InsertByStart(SortedUsed(SubSeq(usedRanges, 1, Len(usedRanges) - 1)),
                       Last(usedRanges))

\* variant: the second comparison taken against the start of f
OutsideFreeFromStart(u, f) == u.end <= f.start + 10 \/ u.start >= f.start - 10

\* u is treated as completely outside f (10 ms tolerance)
OutsideFree(u, f) == u.end <= f.start + 10 \/ u.start >= f.end - 10

\* Subtract u from one free interval f
SubtractFrom(f, u) ==
    IF OutsideFree(u, f) THEN <<f>>
    ELSE (IF u.start > f.start THEN <<[start |-> f.start, end |-> u.start]>> ELSE <<>>)
      \o (IF u.end < f.end THEN <<[start |-> u.end, end |-> f.end]>> ELSE <<>>)

RECURSIVE SubtractOne(_, _)
SubtractOne(free, u) ==
    IF free = <<>> THEN <<>>
    ELSE SubtractFrom(Head(free), u) \o SubtractOne(Tail(free), u)

RECURSIVE SubtractAll(_, _)
SubtractAll(free, sortedUsed) ==
    IF sortedUsed = <<>> THEN free
    ELSE SubtractAll(SubtractOne(free, Head(sortedUsed)), Tail(sortedUsed))

FreeIntervals(mediaDuration, usedRanges) ==
    SubtractAll(<<[start |-> Margin(mediaDuration),
                   end |-> mediaDuration - Margin(mediaDuration)]>>,
                SortedUsed(usedRanges))

FitsClip(f, clipDuration) == (f.end - f.start) >= clipDuration

ValidIntervals(free, clipDuration) ==
    SelectSeq(free, LAMBDA f : FitsClip(f, clipDuration))

\* r = Math.random() * totalLength selects interval j iff r falls in its
\* cumulative slot: the first interval (r = 0) and every interval of positive length
Pickable(valid) ==
    {j \in 1..Len(valid) : j = 1 \/ valid[j].end - valid[j].start > 0}

\* (Math.random() + Math.random()) / 2 * maxLocalStart
SmartOffset(maxLocalStart, k1, k2) == ((k1 + k2) * maxLocalStart) \div (2 * MaxDraw)
\* Math.random() * maxLocalStart
RandomOffset(maxLocalStart, k) == (k * maxLocalStart) \div MaxDraw

\* The start offsets the crop-mode logic can return for the selected range
CropStarts(selectedRange, clipDuration, isSmartCrop) ==
    LET maxLocalStart == (selectedRange.end - selectedRange.start) - clipDuration
        smart == {selectedRange.start + SmartOffset(maxLocalStart, k1, k2) :
                      k1 \in Draws, k2 \in Draws}
        random == {selectedRange.start + RandomOffset(maxLocalStart, k) : k \in Draws}
    IN  IF isSmartCrop \notin {"true", "false"}       \* typeof isSmartCrop === 'string'
        THEN CASE isSmartCrop = "center" -> {selectedRange.start + maxLocalStart \div 2}
               [] isSmartCrop = "start"  -> {selectedRange.start}
               [] isSmartCrop = "end"    -> {selectedRange.start + maxLocalStart}
               [] isSmartCrop = "golden" -> {selectedRange.start + (maxLocalStart * 382) \div 1000}
               [] OTHER -> smart
        ELSE IF isSmartCrop = "true" THEN smart ELSE random

\* The set of values findBestSourceRange can return (Null = saturated)
FindBestSourceRange(mediaDuration, clipDuration, isSmartCrop, usedRanges) ==
    IF EffectiveDuration(mediaDuration) < clipDuration
    THEN IF mediaDuration > clipDuration
         THEN {(mediaDuration - clipDuration) \div 2}
         ELSE {0}
    ELSE LET valid == ValidIntervals(FreeIntervals(mediaDuration, usedRanges), clipDuration)
         IN  IF valid = <<>> THEN {Null}
             ELSE UNION {CropStarts(valid[j], clipDuration, isSmartCrop) : j \in Pickable(valid)}

----------------------------------------------------------------------------
(* generateTimeline: source-segment selection shared by both clip loops    *)

\* variant: the usage history kept when the first call returned null
SelectSourceSegmentKeepingHistory(selectedMedia, clipDuration, cropMode, used) ==
    IF selectedMedia.type = "video"
    THEN UNION {
           IF first = Null
           THEN { [sourceStart |-> IF start # Null THEN start ELSE 0,
                   used |-> Append(used,
                              [start |-> IF start # Null THEN start ELSE 0,
                               end |-> (IF start # Null THEN start ELSE 0) + clipDuration]),
                   wasNull |-> TRUE] :
                  start \in FindBestSourceRange(selectedMedia.duration, clipDuration,
                                                JsBool(cropMode = "smart"), <<>>) }
           ELSE { [sourceStart |-> first,
                   used |-> Append(used, [start |-> first, end |-> first + clipDuration]),
                   wasNull |-> FALSE] } :
           first \in FindBestSourceRange(selectedMedia.duration, clipDuration,
                                         JsBool(cropMode = "smart"), used) }
    ELSE { [sourceStart |-> 0, used |-> used, wasNull |-> FALSE] }

\* Outcomes of "Select source segment" for one clip: the source start, the
\* item's used ranges afterwards, and whether the first call returned null.
SelectSourceSegment(selectedMedia, clipDuration, cropMode, used) ==
    IF selectedMedia.type = "video"
    THEN UNION {
           IF first = Null
           THEN { [sourceStart |-> IF start # Null THEN start ELSE 0,
                   used |-> <<[start |-> IF start # Null THEN start ELSE 0,
                               end |-> (IF start # Null THEN start ELSE 0) + clipDuration]>>,
                   wasNull |-> TRUE] :
                  start \in FindBestSourceRange(selectedMedia.duration, clipDuration,
                                                JsBool(cropMode = "smart"), <<>>) }
           ELSE { [sourceStart |-> first,
                   used |-> Append(used, [start |-> first, end |-> first + clipDuration]),
                   wasNull |-> FALSE] } :
           first \in FindBestSourceRange(selectedMedia.duration, clipDuration,
                                         JsBool(cropMode = "smart"), used) }
    ELSE { [sourceStart |-> 0, used |-> used, wasNull |-> FALSE] }

\* mediaToIndexMap.get(id) || 0 : 1-based storyboard index (last item wins on equal ids)
MediaIndex(id) ==
    LET idxs == {k \in 1..Len(media) : media[k].id = id}
    IN  IF idxs = {} THEN 0 ELSE CHOOSE k \in idxs : \A m \in idxs : m <= k

\* variant: the source range ends at the end of the item
MakeClipWholeSource(selectedMedia, clipStart, clipEnd, sourceStart) ==
    [videoId |-> selectedMedia.id,
     videoIndex |-> MediaIndex(selectedMedia.id),
     type |-> selectedMedia.type,
     duration |-> clipEnd - clipStart,
     timelineStart |-> clipStart,
     timelineEnd |-> clipEnd,
     sourceStart |-> sourceStart,
     sourceEnd |-> selectedMedia.duration]

\* timeline.push({...})
MakeClip(selectedMedia, clipStart, clipEnd, sourceStart) ==
    [videoId |-> selectedMedia.id,
     videoIndex |-> MediaIndex(selectedMedia.id),
     type |-> selectedMedia.type,
     duration |-> clipEnd - clipStart,
     timelineStart |-> clipStart,
     timelineEnd |-> clipEnd,
     sourceStart |-> sourceStart,
     sourceEnd |-> sourceStart + (clipEnd - clipStart)]

----------------------------------------------------------------------------
(* calculateBPM (beats in milliseconds)                                    *)

RECURSIVE InsertNum(_, _)
InsertNum(sorted, x) ==
    IF sorted = <<>> THEN <<x>>
    ELSE IF Head(sorted) <= x
         THEN <<Head(sorted)>> \o InsertNum(Tail(sorted), x)
         ELSE <<x>> \o sorted

\* validIntervals.sort((a, b) => a - b)
RECURSIVE SortNums(_)
SortNums(s) ==
    IF s = <<>> THEN <<>>
    ELSE InsertNum(SortNums(SubSeq(s, 1, Len(s) - 1)), Last(s))

\* beats[i] - beats[i - 1] for i = 1 .. length-1
Intervals(bs) == [k \in 1..(Len(bs) - 1) |-> bs[k + 1] - bs[k]]

\* intervals.filter(i => i > 0.2 && i < 2.0)
IsValidInterval(x) == x > 200 /\ x < 2000

\* variant: the lower of the two middle values
MedianIntervalLower(validIntervals) ==
    SortNums(validIntervals)[(Len(validIntervals) + 1) \div 2]

\* validIntervals[Math.floor(validIntervals.length / 2)] of the sorted list
MedianInterval(validIntervals) ==
    SortNums(validIntervals)[(Len(validIntervals) \div 2) + 1]

\* Math.round(60 / medianInterval), the interval being in ms: floor(60000/m + 1/2)
RoundBpm(medianInterval) == (120000 + medianInterval) \div (2 * medianInterval)

\* Math.min(300, Math.max(40, bpm))
ClampBpm(rounded) == Min(300, Max(40, rounded))

calculateBPM(bs) ==
    IF Len(bs) < 2 THEN 0
    ELSE LET validIntervals == SelectSeq(Intervals(bs), IsValidInterval)
         IN  IF validIntervals = <<>> THEN 0
             ELSE ClampBpm(RoundBpm(MedianInterval(validIntervals)))

----------------------------------------------------------------------------
(* generateTimeline: cut-point selection                                   *)

NoInstrumentBeats == [none |-> TRUE]

\* let beats = audio.beats || []; instrument-specific override
SelectBeats(a, alg) ==
    IF a.instrumentBeats # NoInstrumentBeats
    THEN IF alg = "drums" /\ Len(a.instrumentBeats.kick) > 0 THEN a.instrumentBeats.kick
         ELSE IF alg = "combo-edm" /\ Len(a.instrumentBeats.kick) > 0 THEN a.instrumentBeats.kick
         ELSE IF alg = "voice" /\ Len(a.instrumentBeats.hihat) > 0 THEN a.instrumentBeats.hihat
         ELSE a.beats
    ELSE a.beats

\* const totalDuration = audio.duration || 1
TotalDuration(a) == IF a.duration = 0 THEN 1000 ELSE a.duration

\* variant: the skip setting ignored
SkipEveryNIgnored(s) == 1

\* const skipEveryN = settings.skipEveryN || 1
SkipEveryN(s) == IF s.skipEveryN = 0 THEN 1 ELSE s.skipEveryN

\* settings.rhythmSegments?.find(s => t >= s.startTime && t < s.endTime): index or 0
ActiveSegment(segs, t) ==
    LET hits == {k \in 1..Len(segs) : t >= segs[k].startTime /\ t < segs[k].endTime}
    IN  IF hits = {} THEN 0 ELSE CHOOSE k \in hits : \A m \in hits : k <= m

CurrentSkipN(s, t) ==
    LET k == ActiveSegment(s.rhythmSegments, t)
    IN  IF k # 0 THEN s.rhythmSegments[k].skipEveryN ELSE SkipEveryN(s)

\* Math.floor(step * durationVariance * 2), durationVariance = settings value / 100
MaxVar(step, variance) == (step * variance * 2) \div 100

\* delta = Math.floor(Math.random() * (maxVar * 2 + 1)) - maxVar : every integer in range
StepDeltas(step, variance) ==
    IF variance > 0 /\ MaxVar(step, variance) > 0
    THEN (0 - MaxVar(step, variance)) .. MaxVar(step, variance)
    ELSE {0}

\* step after variance; Math.max(1, step) only inside `if (durationVariance > 0)`
VariedStep(step, delta, variance) ==
    IF variance > 0 THEN Max(1, step + delta) ELSE step

\* Validate beat
ValidBeat(beatTime, lastCut, totalDuration) ==
    beatTime > lastCut /\ beatTime <= totalDuration

\* variant: the end of the track never appended
EndAtTotalOmitted(cuts, totalDuration) == cuts

\* Ensure we end at total duration
EndAtTotal(cuts, totalDuration) ==
    IF Last(cuts) < totalDuration THEN Append(cuts, totalDuration) ELSE cuts

\* const bpm = settings.manualBpm || audio.bpm || 120
MetronomeBpm(s, a) ==
    IF s.manualBpm # 0 THEN s.manualBpm ELSE IF a.bpm # 0 THEN a.bpm ELSE 120

\* beatInterval * skipEveryN, beatInterval = 60 / bpm (ms)
BaseInterval(s, a) == (60000 \div MetronomeBpm(s, a)) * SkipEveryN(s)

\* interval after variance, randomFactor = (Math.random() - 0.5) * 2 = (2k - MaxDraw)/MaxDraw
MetronomeIntervals(baseInterval, variance) ==
    IF variance > 0
    THEN {Max(100, baseInterval + (baseInterval * variance * (2 * k - MaxDraw)) \div (100 * MaxDraw)) :
             k \in Draws}
    ELSE {baseInterval}

\* nextPoint > cutPoints[cutPoints.length - 1] + 0.05
FarEnough(nextPoint, lastCut) == nextPoint > lastCut + 50

----------------------------------------------------------------------------
(* generateTimeline: legacy clip duration                                  *)

\* variant: a beat at currentTime + MIN_CLIP_DURATION is valid too
ValidBeatsNotStrict(bs, now, minDuration) == SelectSeq(bs, LAMBDA b : b >= now + minDuration)

\* beats.filter(b => b > currentTime + MIN_CLIP_DURATION)
ValidBeats(bs, now, minDuration) == SelectSeq(bs, LAMBDA b : b > now + minDuration)

IsInstrumentMode(alg) == alg \in {"drums", "vocals", "voice"}

\* range of the random candidate offset
CandidateRange(validBeats, alg) ==
    IF IsInstrumentMode(alg) THEN Min(Len(validBeats), 1) ELSE Min(Len(validBeats), 4)

\* variant: the grace in every mode
GracePeriodAlways(alg) == 300

\* const gracePeriod = isInstrumentMode ? 0.3 : 0
GracePeriod(alg) == IF IsInstrumentMode(alg) THEN 300 ELSE 0

\* validBeats.find(b => b - currentTime <= MAX) || (currentTime + MAX)
BestIntermediateOrCap(validBeats, now, maxDuration) ==
    LET hits == {k \in 1..Len(validBeats) : validBeats[k] - now <= maxDuration}
        first == CHOOSE k \in hits : \A m \in hits : k <= m
    IN  IF hits # {} /\ validBeats[first] # 0 THEN validBeats[first] ELSE now + maxDuration

\* the cut chosen for one candidate beat
CutForCandidate(candidateBeat, validBeats, now, maxDuration, alg) ==
    IF candidateBeat - now > maxDuration
    THEN IF candidateBeat - now <= maxDuration + GracePeriod(alg)
         THEN candidateBeat
         ELSE BestIntermediateOrCap(validBeats, now, maxDuration)
    ELSE candidateBeat

\* every value `nextCutTime` can take in one iteration of the legacy loop
NextCutTimes(bs, now, s, totalDuration) ==
    IF Len(bs) > 0
    THEN LET validBeats == ValidBeats(bs, now, s.minDuration)
         IN  IF Len(validBeats) > 0
             THEN {CutForCandidate(validBeats[offset + 1], validBeats, now,
                                   s.maxDuration, s.algorithm) :
                      offset \in 0..(CandidateRange(validBeats, s.algorithm) - 1)}
             ELSE {Min(now + s.maxDuration, totalDuration)}
    ELSE {Min(now + 2000, totalDuration)}

\* variant: always the first item
SequentialMediaFirst(ms, idx) == ms[1]

\* sequential-once selection: selectedMedia = media[nextMediaIdx]
SequentialMedia(ms, idx) == ms[idx + 1]

\* variant: no re-draw on an immediate repeat
RandomMediaAny(ms, tl) == {ms[k] : k \in 1..Len(ms)}

\* random-loop selection: any item, re-drawn among the others on an immediate repeat
RandomMedia(ms, tl) ==
    UNION { IF Len(ms) > 1 /\ Len(tl) > 0 /\ Last(tl).videoId = ms[k].id
            THEN {ms[j] : j \in {j \in 1..Len(ms) : ms[j].id # ms[k].id}}
            ELSE {ms[k]} : k \in 1..Len(ms) }

\* variant: no forced advance
AdvanceTimeUnforced(nextCutTime, clipDuration) == nextCutTime

\* Safety break: currentTime after the clip
AdvanceTime(nextCutTime, clipDuration) ==
    IF clipDuration <= 10 THEN nextCutTime + 500 ELSE nextCutTime

----------------------------------------------------------------------------
(* generateTimeline: the state machine                                     *)

MediaIds == {media[k].id : k \in 1..Len(media)}

UsedOf(id) == usedMediaSegments[id]        \* usedMediaSegments.get(id) || []

\* variant: the histories of the other items cleared
SetUsedClearingOthers(id, ranges) ==
    [x \in DOMAIN usedMediaSegments |-> IF x = id THEN ranges ELSE <<>>]

\* usedMediaSegments.set(selectedMedia.id, ...)
SetUsed(id, ranges) == [usedMediaSegments EXCEPT ![id] = ranges]

\* if (media.length === 0 || !audio) return [];
ReturnEmpty ==
    /\ pc = "start"
    /\ Len(media) = 0 \/ audio = NoAudio
    /\ pc' = "done"
    /\ UNCHANGED <<media, audio, settings, beats, cutPoints, currentBeatIndex, currentPoint,
                   i, videoIdx, currentTime, nextMediaIdx, timeline, usedMediaSegments,
                   nullSignalled>>
    /\ UNCHANGED <<detvars, hookvars>>

\* variant: the media list not tested
EnteredWithoutMedia == pc = "start" /\ audio # NoAudio

\* the early return not taken
Entered == pc = "start" /\ Len(media) # 0 /\ audio # NoAudio

UsesBeatLocked(s, bs) == s.videoMode = "beat-locked" /\ Len(bs) > 0

UsesMetronome(s, a, bs) ==
    s.videoMode = "metronome" /\ (s.manualBpm # 0 \/ a.bpm # 0 \/ Len(bs) > 0)

BeatLockedInit ==
    /\ Entered
    /\ UsesBeatLocked(settings, SelectBeats(audio, settings.algorithm))
    /\ beats' = SelectBeats(audio, settings.algorithm)
    /\ cutPoints' = <<0>>
    /\ currentBeatIndex' = 0
    /\ pc' = "beatLocked"
    /\ UNCHANGED <<media, audio, settings, currentPoint, i, videoIdx, currentTime,
                   nextMediaIdx, timeline, usedMediaSegments, nullSignalled>>
    /\ UNCHANGED <<detvars, hookvars>>

\* one iteration of `while (currentBeatIndex < beats.length)`
BeatLockedStep ==
    /\ pc = "beatLocked"
    /\ currentBeatIndex < Len(beats)
    /\ LET currentBeatTime == beats[currentBeatIndex + 1]
           currentSkipN == CurrentSkipN(settings, currentBeatTime)
       IN  \E delta \in StepDeltas(currentSkipN, settings.durationVariance) :
             LET step == VariedStep(currentSkipN, delta, settings.durationVariance)
                 next == currentBeatIndex + step
             IN  /\ currentBeatIndex' = next
                 /\ IF next < Len(beats)
                    THEN /\ cutPoints' = IF ValidBeat(beats[next + 1], Last(cutPoints),
                                                     TotalDuration(audio))
                                         THEN Append(cutPoints, beats[next + 1])
                                         ELSE cutPoints
                         /\ pc' = "beatLocked"
                    ELSE /\ cutPoints' = cutPoints
                         /\ pc' = "beatLockedEnd"
    /\ UNCHANGED <<media, audio, settings, beats, currentPoint, i, videoIdx, currentTime,
                   nextMediaIdx, timeline, usedMediaSegments, nullSignalled>>
    /\ UNCHANGED <<detvars, hookvars>>

BeatLockedFinish ==
    /\ pc = "beatLockedEnd" \/ (pc = "beatLocked" /\ currentBeatIndex >= Len(beats))
    /\ cutPoints' = EndAtTotal(cutPoints, TotalDuration(audio))
    /\ i' = 0
    /\ videoIdx' = 0
    /\ pc' = "clips"
    /\ UNCHANGED <<media, audio, settings, beats, currentBeatIndex, currentPoint,
                   currentTime, nextMediaIdx, timeline, usedMediaSegments, nullSignalled>>
    /\ UNCHANGED <<detvars, hookvars>>

\* variant: the grid always starts at 0
MetronomeStartZero(bs) == 0

\* start point of the grid
MetronomeStart(bs) == IF Len(bs) > 0 /\ bs[1] < 500 THEN bs[1] ELSE 0

MetronomeInit ==
    /\ Entered
    /\ ~UsesBeatLocked(settings, SelectBeats(audio, settings.algorithm))
    /\ UsesMetronome(settings, audio, SelectBeats(audio, settings.algorithm))
    /\ beats' = SelectBeats(audio, settings.algorithm)
    /\ currentPoint' = MetronomeStart(beats')
    /\ cutPoints' = IF currentPoint' > 50 THEN <<0, currentPoint'>> ELSE <<0>>
    /\ pc' = "metronome"
    /\ UNCHANGED <<media, audio, settings, currentBeatIndex, i, videoIdx, currentTime,
                   nextMediaIdx, timeline, usedMediaSegments, nullSignalled>>
    /\ UNCHANGED <<detvars, hookvars>>

\* one iteration of `while (currentPoint < totalDuration)`
MetronomeStep ==
    /\ pc = "metronome"
    /\ currentPoint < TotalDuration(audio)
    /\ \E interval \in MetronomeIntervals(BaseInterval(settings, audio),
                                          settings.durationVariance) :
         LET nextPoint == currentPoint + interval
         IN  IF nextPoint > TotalDuration(audio)
             THEN /\ pc' = "metronomeEnd"
                  /\ UNCHANGED <<cutPoints, currentPoint>>
             ELSE /\ cutPoints' = IF FarEnough(nextPoint, Last(cutPoints))
                                  THEN Append(cutPoints, nextPoint)
                                  ELSE cutPoints
                  /\ currentPoint' = nextPoint
                  /\ pc' = "metronome"
    /\ UNCHANGED <<media, audio, settings, beats, currentBeatIndex, i, videoIdx, currentTime,
                   nextMediaIdx, timeline, usedMediaSegments, nullSignalled>>
    /\ UNCHANGED <<detvars, hookvars>>

MetronomeFinish ==
    /\ pc = "metronomeEnd" \/ (pc = "metronome" /\ currentPoint >= TotalDuration(audio))
    /\ cutPoints' = EndAtTotal(cutPoints, TotalDuration(audio))
    /\ i' = 0
    /\ videoIdx' = 0
    /\ pc' = "clips"
    /\ UNCHANGED <<media, audio, settings, beats, currentBeatIndex, currentPoint,
                   currentTime, nextMediaIdx, timeline, usedMediaSegments, nullSignalled>>
    /\ UNCHANGED <<detvars, hookvars>>

\* variant: no wrap-around, the last item repeated
CycledMediaClamped(ms, idx) == ms[Min(idx, Len(ms) - 1) + 1]

\* Cycle through media: media[videoIdx % media.length]
CycledMedia(ms, idx) == ms[(idx % Len(ms)) + 1]

\* if (clipDuration < 0.05) continue;
TinyGap(clipDuration) == clipDuration < 50

\* one iteration of `for (let i = 0; i < cutPoints.length - 1; i++)`
ClipStep ==
    /\ pc = "clips"
    /\ i < Len(cutPoints) - 1
    /\ LET clipStart == cutPoints[i + 1]
           clipEnd == cutPoints[i + 2]
           clipDuration == clipEnd - clipStart
           selectedMedia == CycledMedia(media, videoIdx)
       IN  IF TinyGap(clipDuration)
           THEN UNCHANGED <<videoIdx, timeline, usedMediaSegments, nullSignalled>>
           ELSE \E o \in SelectSourceSegment(selectedMedia, clipDuration, settings.cropMode,
                                             UsedOf(selectedMedia.id)) :
                  /\ videoIdx' = videoIdx + 1
                  /\ usedMediaSegments' = SetUsed(selectedMedia.id, o.used)
                  /\ nullSignalled' = IF o.wasNull THEN nullSignalled \cup {selectedMedia.id}
                                      ELSE nullSignalled
                  /\ timeline' = Append(timeline,
                                        MakeClip(selectedMedia, clipStart, clipEnd, o.sourceStart))
    /\ i' = i + 1
    /\ UNCHANGED <<media, audio, settings, pc, beats, cutPoints, currentBeatIndex,
                   currentPoint, currentTime, nextMediaIdx>>
    /\ UNCHANGED <<detvars, hookvars>>

ClipsReturn ==
    /\ pc = "clips"
    /\ i >= Len(cutPoints) - 1
    /\ pc' = "done"
    /\ UNCHANGED <<media, audio, settings, beats, cutPoints, currentBeatIndex, currentPoint,
                   i, videoIdx, currentTime, nextMediaIdx, timeline, usedMediaSegments,
                   nullSignalled>>
    /\ UNCHANGED <<detvars, hookvars>>

LegacyInit ==
    /\ Entered
    /\ ~UsesBeatLocked(settings, SelectBeats(audio, settings.algorithm))
    /\ ~UsesMetronome(settings, audio, SelectBeats(audio, settings.algorithm))
    /\ beats' = SelectBeats(audio, settings.algorithm)
    /\ currentTime' = 0
    /\ nextMediaIdx' = 0
    /\ pc' = "legacy"
    /\ UNCHANGED <<media, audio, settings, cutPoints, currentBeatIndex, currentPoint, i,
                   videoIdx, timeline, usedMediaSegments, nullSignalled>>
    /\ UNCHANGED <<detvars, hookvars>>

\* one iteration of `while (currentTime < totalDuration)`
LegacyStep ==
    /\ pc = "legacy"
    /\ currentTime < TotalDuration(audio)
    /\ \E nextCutTime \in NextCutTimes(beats, currentTime, settings, TotalDuration(audio)) :
         LET clipDuration == nextCutTime - currentTime
         IN  IF settings.videoMode = "sequential-once" /\ nextMediaIdx >= Len(media)
             THEN /\ pc' = "done"
                  /\ UNCHANGED <<currentTime, nextMediaIdx, timeline, usedMediaSegments,
                                 nullSignalled>>
             ELSE \E selectedMedia \in (IF settings.videoMode = "sequential-once"
                                        THEN {SequentialMedia(media, nextMediaIdx)}
                                        ELSE RandomMedia(media, timeline)) :
                  \E o \in SelectSourceSegment(selectedMedia, clipDuration, settings.cropMode,
                                               UsedOf(selectedMedia.id)) :
                    /\ nextMediaIdx' = IF settings.videoMode = "sequential-once"
                                       THEN nextMediaIdx + 1 ELSE nextMediaIdx
                    /\ usedMediaSegments' = SetUsed(selectedMedia.id, o.used)
                    /\ nullSignalled' = IF o.wasNull THEN nullSignalled \cup {selectedMedia.id}
                                        ELSE nullSignalled
                    /\ timeline' = Append(timeline,
                                          MakeClip(selectedMedia, currentTime, nextCutTime,
                                                   o.sourceStart))
                    /\ currentTime' = AdvanceTime(nextCutTime, clipDuration)
                    /\ pc' = "legacy"
    /\ UNCHANGED <<media, audio, settings, beats, cutPoints, currentBeatIndex, currentPoint,
                   i, videoIdx>>
    /\ UNCHANGED <<detvars, hookvars>>

LegacyReturn ==
    /\ pc = "legacy"
    /\ currentTime >= TotalDuration(audio)
    /\ pc' = "done"
    /\ UNCHANGED <<media, audio, settings, beats, cutPoints, currentBeatIndex, currentPoint,
                   i, videoIdx, currentTime, nextMediaIdx, timeline, usedMediaSegments,
                   nullSignalled>>
    /\ UNCHANGED <<detvars, hookvars>>

----------------------------------------------------------------------------
(* detectBeats                                                             *)
(* Samples are amplitudes scaled by 1000, energies and flux by 10000.      *)
(* A timestamp is kept exactly as its sample offset n (seconds = n / sampleRate). *)

\* getDetectionParams: multiplier * 100, noiseFloor * 10000, minInterval in ms
getDetectionParams(alg) ==
    CASE alg = "drums" ->
           [fftSize |-> 256, hopSize |-> 128, windowSize |-> 10, multiplier |-> 130,
            noiseFloor |-> 100, minInterval |-> 80]
      [] alg = "bass" ->
           [fftSize |-> 1024, hopSize |-> 256, windowSize |-> 12, multiplier |-> 140,
            noiseFloor |-> 150, minInterval |-> 120]
      [] alg = "guitar" ->
           [fftSize |-> 512, hopSize |-> 256, windowSize |-> 12, multiplier |-> 135,
            noiseFloor |-> 100, minInterval |-> 100]
      [] alg \in {"vocals", "voice"} ->
           [fftSize |-> 1024, hopSize |-> 512, windowSize |-> 20, multiplier |-> 150,
            noiseFloor |-> 80, minInterval |-> 150]
      [] alg = "words" ->
           [fftSize |-> 256, hopSize |-> 128, windowSize |-> 8, multiplier |-> 125,
            noiseFloor |-> 50, minInterval |-> 120]
      [] alg = "sentences" ->
           [fftSize |-> 2048, hopSize |-> 1024, windowSize |-> 30, multiplier |-> 180,
            noiseFloor |-> 150, minInterval |-> 800]
      [] alg = "melody" ->
           [fftSize |-> 2048, hopSize |-> 512, windowSize |-> 25, multiplier |-> 160,
            noiseFloor |-> 100, minInterval |-> 200]
      [] alg \in {"brass", "keys"} ->
           [fftSize |-> 512, hopSize |-> 256, windowSize |-> 15, multiplier |-> 140,
            noiseFloor |-> 100, minInterval |-> 120]
      [] alg = "combo-edm" ->
           [fftSize |-> 256, hopSize |-> 128, windowSize |-> 10, multiplier |-> 130,
            noiseFloor |-> 100, minInterval |-> 80]
      [] alg = "combo-clip" ->
           [fftSize |-> 512, hopSize |-> 256, windowSize |-> 15, multiplier |-> 135,
            noiseFloor |-> 80, minInterval |-> 150]
      [] OTHER ->
           [fftSize |-> 512, hopSize |-> 256, windowSize |-> 15, multiplier |-> 140,
            noiseFloor |-> 80, minInterval |-> 100]

\* Math.sqrt on the scaled integers: the integer square root
RECURSIVE SqrtBetween(_, _, _)
SqrtBetween(n, lo, hi) ==
    IF lo >= hi THEN lo
    ELSE LET mid == (lo + hi + 1) \div 2
         IN  IF mid * mid <= n THEN SqrtBetween(n, mid, hi) ELSE SqrtBetween(n, lo, mid - 1)

Sqrt(n) == SqrtBetween(n, 0, 20000)

RECURSIVE SumSeq(_)
SumSeq(s) == IF s = <<>> THEN 0 ELSE Head(s) + SumSeq(Tail(s))

\* RMS energy of frame f (0-based): sqrt(sum / fftSize) over the samples
\* [f*hopSize, f*hopSize + fftSize) that exist; fftSize = runs * hopSize
FrameEnergy(amps, f, params) ==
    LET runs == params.fftSize \div params.hopSize
        hi == Min(f + runs, Len(amps))
        squares == [b \in 1..(hi - f) |-> amps[f + b] * amps[f + b]]
    IN  Sqrt((SumSeq(squares) * 100) \div runs)

\* energies: one entry per hop
Energies(amps, params) == [f \in 1..Len(amps) |-> FrameEnergy(amps, f - 1, params)]

\* flux[0] = 0; flux[i] = max(0, energies[i] - energies[i-1])   (1-based sequence)
Flux(energies) ==
    IF energies = <<>> THEN <<0>>
    ELSE [f \in 1..Len(energies) |->
            IF f = 1 THEN 0
            ELSE IF energies[f] - energies[f - 1] > 0 THEN energies[f] - energies[f - 1] ELSE 0]

\* sumLocal: sum of flux[i - h], h = 1 .. windowSize  (i 0-based)
SumLocal(flux, idx, windowSize) == SumSeq([h \in 1..windowSize |-> flux[idx - h + 1]])

\* variant: the comparisons not strict and no noise floor
IsPeakNotStrict(flux, idx, params) ==
    LET currentFlux == flux[idx + 1]
    IN  /\ currentFlux * params.windowSize * 100 >=
               SumLocal(flux, idx, params.windowSize) * params.multiplier
        /\ currentFlux >= flux[idx]
        /\ currentFlux >= flux[idx + 2]

\* the peak test at 0-based index i; localAvg * multiplier compared exactly
IsPeak(flux, idx, params) ==
    LET currentFlux == flux[idx + 1]
    IN  /\ currentFlux * params.windowSize * 100 >
               SumLocal(flux, idx, params.windowSize) * params.multiplier
        /\ currentFlux > flux[idx]
        /\ currentFlux > flux[idx + 2]
        /\ currentFlux > params.noiseFloor

\* timestamp of frame i as a sample offset: max(0, i*hopSize - fftSize/2)
TimestampOffset(idx, params) == Max(0, idx * params.hopSize - params.fftSize \div 2)

\* minInterval in ms: userSensitivityMs === 0 ? 0.01 : userSensitivityMs / 1000
EffectiveDebounce(sensitivityMs) == IF sensitivityMs = 0 THEN 10 ELSE sensitivityMs

\* variant: no debouncing
PassesDebounceAlways(found, offset, sampleRate, sensitivityMs) ==
    found = <<>> \/ offset > Last(found)

\* Debouncing: peaks.length === 0 || timestamp - last > minInterval
PassesDebounce(found, offset, sampleRate, sensitivityMs) ==
    found = <<>> \/ (offset - Last(found)) * 1000 > EffectiveDebounce(sensitivityMs) * sampleRate

\* one iteration of the peak loop at 0-based index idx: `peaks` afterwards
PeakStep(flux, idx, found, params, sampleRate, sensitivityMs) ==
    IF /\ IsPeak(flux, idx, params)
       /\ PassesDebounce(found, TimestampOffset(idx, params), sampleRate, sensitivityMs)
    THEN Append(found, TimestampOffset(idx, params))
    ELSE found

\* the iterations lo <= i < hi in order (the range is halved to keep the evaluation
\* shallow; the iterations and their order are those of the loop)
RECURSIVE PeakRange(_, _, _, _, _, _, _)
PeakRange(flux, lo, hi, found, params, sampleRate, sensitivityMs) ==
    IF lo >= hi THEN found
    ELSE IF hi = lo + 1 THEN PeakStep(flux, lo, found, params, sampleRate, sensitivityMs)
    ELSE LET mid == (lo + hi) \div 2
             firstHalf == PeakRange(flux, lo, mid, found, params, sampleRate, sensitivityMs)
         IN  IF Len(firstHalf) >= Len(found)      \* the first half is evaluated first
             THEN PeakRange(flux, mid, hi, firstHalf, params, sampleRate, sensitivityMs)
             ELSE found

\* the loop `for (let i = windowSize; i < flux.length - 1; i++)`
PeakLoop(flux, idx, found, params, sampleRate, sensitivityMs) ==
    PeakRange(flux, idx, Len(flux) - 1, found, params, sampleRate, sensitivityMs)

detectBeats(buffer, alg, sensitivityMs) ==
    LET params == getDetectionParams(alg)
        flux == Flux(Energies(buffer.amps, params))
    IN  IF Len(flux) < params.windowSize THEN <<>>
        ELSE PeakLoop(flux, params.windowSize, <<>>, params, buffer.sampleRate, sensitivityMs)

\* a sample offset as a time in ms
OffsetToMs(offset, sampleRate) == (offset * 1000) \div sampleRate

----------------------------------------------------------------------------
(* detectSilence: windows of 1024 samples every hopSize = 512 samples, so   *)
(* a window is two runs of the buffer; timestamps are sample offsets.       *)

SilenceHopSize == 512

\* sum of val * val over the window at 0-based hop idx, per sample of a run
\* (the window covers the runs idx and idx + 1 that exist)
WindowSquares(amps, idx) ==
    amps[idx + 1] * amps[idx + 1]
        + (IF idx + 2 <= Len(amps) THEN amps[idx + 2] * amps[idx + 2] ELSE 0)

\* rms < silenceThreshold: sqrt(sum / 1024) < 0.02, i.e. (a^2 + b^2) / 2 < 20^2
BelowSilenceThreshold(amps, idx) == WindowSquares(amps, idx) < 2 * 20 * 20

\* silenceDuration >= minSilenceDuration (0.3 s), on sample offsets
LongSilence(offset, silenceStart, sampleRate) ==
    (offset - silenceStart) * 10 >= 3 * sampleRate

\* the scan `for (let i = 0; i < channelData.length; i += hopSize)` from hop idx on:
\* silenceStarts at the end of the loop
RECURSIVE SilenceScan(_, _, _, _, _, _)
SilenceScan(amps, idx, inSilence, silenceStartTime, silenceStarts, sampleRate) ==
    IF idx >= Len(amps) THEN silenceStarts
    ELSE LET timestamp == idx * SilenceHopSize
         IN  IF BelowSilenceThreshold(amps, idx)
             THEN SilenceScan(amps, idx + 1, TRUE,
                              IF inSilence THEN silenceStartTime ELSE timestamp,
                              silenceStarts, sampleRate)
             ELSE SilenceScan(amps, idx + 1, FALSE, silenceStartTime,
                              IF inSilence /\ LongSilence(timestamp, silenceStartTime, sampleRate)
                              THEN Append(silenceStarts, timestamp)
                              ELSE silenceStarts,
                              sampleRate)

\* the timestamps where sound resumes after a silence of at least 0.3 s
SilenceStarts(buffer) == SilenceScan(buffer.amps, 0, FALSE, 0, <<>>, buffer.sampleRate)

\* minInterval in ms: sensitivityMs === 0 ? 0.01 : sensitivityMs / 1000
SilenceMinInterval(sensitivityMs) == IF sensitivityMs = 0 THEN 10 ELSE sensitivityMs

\* the filter callback: i === 0 || t - silenceStarts[i - 1] > minInterval  (k 1-based)
KeepsStart(silenceStarts, k, sampleRate, sensitivityMs) ==
    k = 1 \/ (silenceStarts[k] - silenceStarts[k - 1]) * 1000
                 > SilenceMinInterval(sensitivityMs) * sampleRate

\* silenceStarts.filter(...): the kept entries among the first n, in order
RECURSIVE FilterStarts(_, _, _, _)
FilterStarts(silenceStarts, n, sampleRate, sensitivityMs) ==
    IF n = 0 THEN <<>>
    ELSE LET before == FilterStarts(silenceStarts, n - 1, sampleRate, sensitivityMs)
         IN  IF KeepsStart(silenceStarts, n, sampleRate, sensitivityMs)
             THEN Append(before, silenceStarts[n])
             ELSE before

detectSilence(buffer, sensitivityMs) ==
    LET silenceStarts == SilenceStarts(buffer)
    IN  FilterStarts(silenceStarts, Len(silenceStarts), buffer.sampleRate, sensitivityMs)

----------------------------------------------------------------------------
(* The three parts of the program are exercised by separate specifications; *)
(* the parts a specification does not run stay in these rest states.        *)

NoBuffer == [amps |-> <<>>, sampleRate |-> 44100]

IdleTimeline ==
    /\ media = <<>> /\ audio = NoAudio /\ settings = [none |-> TRUE]
    /\ pc = "idle" /\ beats = <<>> /\ cutPoints = <<>> /\ currentBeatIndex = 0
    /\ currentPoint = 0 /\ i = 0 /\ videoIdx = 0 /\ currentTime = 0 /\ nextMediaIdx = 0
    /\ timeline = <<>> /\ usedMediaSegments = <<>> /\ nullSignalled = {}

IdleDetect ==
    /\ audioBuffer = NoBuffer /\ algorithm = "energy" /\ userSensitivityMs = 100
    /\ peaks = <<>> /\ bpmBeats = <<>> /\ bpm = 0 /\ dpc = "idle"

\* lastProcessedRef's initial '' ; a settings key is <<audio id, algorithm, sensitivity>>
NoKey == <<>>

\* the store and the refs when the hook mounts
MountedHook ==
    /\ storeAudio = NoAudio
    /\ syncSettings = [algorithm |-> "energy", beatSensitivity |-> 100]
    /\ status = "idle"
    /\ processingRef = FALSE
    /\ lastProcessedRef = NoKey
    /\ tasks = <<>>
    /\ nextAudioId = 1

----------------------------------------------------------------------------
(* Inputs of generateTimeline                                              *)

Video(id, duration) == [id |-> id, type |-> "video", duration |-> duration]
\* images get a virtual duration of 5.0 s at ingestion
Image(id) == [id |-> id, type |-> "image", duration |-> 5000]

\* storyboards used with every cut-point setting
CutMediaLists ==
    { <<>>,
      <<Image(1)>>,
      <<Video(1, 10000), Image(2)>>,
      <<Image(1), Image(2), Image(3)>> }

\* storyboards used to exercise the source-segment allocator
AllocMediaLists ==
    { <<Video(1, 10000)>>,
      <<Video(1, 2200), Video(2, 10000)>>,
      <<Video(1, 1500), Video(2, 2200), Video(3, 10000)>>,
      <<Video(1, 2500), Video(2, 10000)>>,
      <<Video(1, 10000), Image(2)>> }

\* an AudioTrack as the store holds it after analysis: bpm = calculateBPM(beats)
Track(duration, bs, instr) ==
    [duration |-> duration, beats |-> bs, bpm |-> calculateBPM(bs), instrumentBeats |-> instr]

CutAudioTracks ==
    { NoAudio,
      Track(3000, <<500, 1000, 1500, 2000, 2500, 3000>>, NoInstrumentBeats),
      Track(3000, <<8, 1000, 1020, 2980>>, NoInstrumentBeats),
      Track(3000, <<500, 1000, 1020, 2000>>, NoInstrumentBeats),
      Track(3000, <<1200, 1205, 2400>>,
            [kick |-> <<1200, 2400>>, snare |-> <<>>, hihat |-> <<>>]),
      Track(0, <<>>, NoInstrumentBeats) }

AllocAudioTracks ==
    { Track(6000, <<0, 2000, 4000, 6000>>, NoInstrumentBeats),
      Track(6000, <<>>, NoInstrumentBeats) }

Segment(startTime, endTime, n) == [startTime |-> startTime, endTime |-> endTime, skipEveryN |-> n]

SegmentLists ==
    { <<>>,
      <<Segment(1000, 2000, 2)>>,
      <<Segment(0, 1500, 2), Segment(1000, 3000, 4)>>,
      <<Segment(0, 3000, 0)>> }

CropModes == {"smart", "random"}

\* the store's initial syncSettings
DefaultSettings ==
    [videoMode |-> "beat-locked", algorithm |-> "energy", minDuration |-> 500,
     maxDuration |-> 4000, skipEveryN |-> 1, durationVariance |-> 0,
     rhythmSegments |-> <<>>, manualBpm |-> 0, cropMode |-> "smart"]

BeatLockedSettings ==
    { [DefaultSettings EXCEPT !.skipEveryN = n, !.durationVariance = v,
                              !.rhythmSegments = r, !.cropMode = c] :
        n \in {0, 1, 2}, v \in {0, 50}, r \in SegmentLists, c \in CropModes }

MetronomeSettings ==
    { [DefaultSettings EXCEPT !.videoMode = "metronome", !.manualBpm = b, !.skipEveryN = n,
                              !.durationVariance = v, !.cropMode = c] :
        b \in {0, 60}, n \in {1, 2}, v \in {0, 50}, c \in CropModes }

LegacySettings ==
    { [DefaultSettings EXCEPT !.videoMode = m, !.algorithm = a, !.minDuration = lo,
                              !.maxDuration = hi, !.cropMode = c] :
        m \in {"sequential-once", "random-loop"}, a \in {"energy", "drums"},
        lo \in {0, 500}, hi \in {0, 1000, 4000}, c \in CropModes }

SettingsSet == BeatLockedSettings \cup MetronomeSettings \cup LegacySettings

\* the crop modes of SyncSettings the UI does not offer
FixedCropModes == {"center", "start", "end", "golden"}

AllocSettings ==
    { [DefaultSettings EXCEPT !.videoMode = m, !.cropMode = c] :
        m \in {"beat-locked", "sequential-once", "random-loop"},
        c \in CropModes \cup FixedCropModes }

HasVideo(ms) == \E k \in 1..Len(ms) : ms[k].type = "video"

\* the argument triples generateTimeline is called with; step/interval variance
\* is exercised on image-only storyboards
Inputs ==
    { c \in [media : CutMediaLists, audio : CutAudioTracks, settings : SettingsSet] :
        HasVideo(c.media) => c.settings.durationVariance = 0 }
    \cup
    { [media |-> m, audio |-> a, settings |-> s] :
        m \in AllocMediaLists, a \in AllocAudioTracks, s \in AllocSettings }

InitTimeline ==
    /\ \E c \in Inputs : media = c.media /\ audio = c.audio /\ settings = c.settings
    /\ pc = "start"
    /\ beats = <<>>
    /\ cutPoints = <<>>
    /\ currentBeatIndex = 0
    /\ currentPoint = 0
    /\ i = 0
    /\ videoIdx = 0
    /\ currentTime = 0
    /\ nextMediaIdx = 0
    /\ timeline = <<>>
    /\ usedMediaSegments = [id \in MediaIds |-> <<>>]
    /\ nullSignalled = {}
    /\ IdleDetect
    /\ MountedHook

NextTimeline ==
    \/ ReturnEmpty
    \/ BeatLockedInit
    \/ BeatLockedStep
    \/ BeatLockedFinish
    \/ MetronomeInit
    \/ MetronomeStep
    \/ MetronomeFinish
    \/ ClipStep
    \/ ClipsReturn
    \/ LegacyInit
    \/ LegacyStep
    \/ LegacyReturn

SpecTimeline == InitTimeline /\ [][NextTimeline]_vars

----------------------------------------------------------------------------
(* The analysis pipeline: detectBeats, then calculateBPM on the result     *)

\* number of hop-sized runs after the silent lead-in
TailLen == 7
\* longest beat list handed to calculateBPM directly
MaxBeats == 4

Levels == {0, 300, 900}

Silence(n) == [k \in 1..n |-> 0]

\* buffers: windowSize - 1 silent hops, then TailLen hops of any level
Buffers(alg) ==
    { [amps |-> Silence(getDetectionParams(alg).windowSize - 1) \o tail, sampleRate |-> sr] :
        tail \in [1..TailLen -> Levels], sr \in {8000, 44100} }

BeatTimes == {0, 200, 450, 700, 1000, 2200, 2800, 4000}

\* strictly increasing beat lists of at most MaxBeats entries
RECURSIVE Ascending(_)
Ascending(n) ==
    IF n = 0 THEN {<<>>}
    ELSE Ascending(n - 1) \cup
         {Append(bs, t) : bs \in {b \in Ascending(n - 1) : Len(b) = n - 1},
                          t \in BeatTimes} 

BeatLists == {bs \in Ascending(MaxBeats) : \A k \in 1..(Len(bs) - 1) : bs[k] < bs[k + 1]}

\* longest silent buffer, in hops, tried with every algorithm and sensitivity
MaxSilentHops == 32

\* one algorithm name for every case of getDetectionParams, and the default
DetectAlgorithms ==
    {"drums", "bass", "guitar", "vocals", "voice", "words", "sentences", "melody",
     "brass", "keys", "combo-edm", "combo-clip", "energy", "spectral", "ai"}

\* number of hops of a buffer of n samples: one energy per started hop
HopsOf(n, alg) ==
    (n + getDetectionParams(alg).hopSize - 1) \div getDetectionParams(alg).hopSize

\* all-zero buffers: every length up to MaxSilentHops hops, and 2 s at 44100 Hz
SilentBuffers(alg) ==
    { [amps |-> Silence(n), sampleRate |-> sr] : n \in 0..MaxSilentHops, sr \in {8000, 44100} }
    \cup { [amps |-> Silence(HopsOf(2 * 44100, alg)), sampleRate |-> 44100] }

\* lengths in hops of the quiet stretches and of the sound between them
QuietHops == {4, 5, 6}
SoundHops == {1, 2}

Run(n, level) == [k \in 1..n |-> level]

\* buffers for detectSilence: three quiet stretches, each followed by sound
SilenceBuffers ==
    { [amps |-> Run(q[1], quiet) \o Run(l[1], loud) \o Run(q[2], quiet) \o Run(l[2], loud)
                  \o Run(q[3], quiet) \o Run(l[3], loud),
       sampleRate |-> sr] :
        q \in [1..3 -> QuietHops], l \in [1..3 -> SoundHops],
        quiet \in {0, 10}, loud \in {30, 900}, sr \in {8000, 44100} }

SilenceSensitivities == {0, 100, 500}

InitAnalysis ==
    /\ \/ /\ algorithm \in {"drums", "bass"}
          /\ audioBuffer \in Buffers(algorithm)
          /\ userSensitivityMs \in {0, 50, 100}
          /\ bpmBeats = <<>>
          /\ dpc = "detect"
       \/ /\ algorithm \in DetectAlgorithms
          /\ audioBuffer \in SilentBuffers(algorithm)
          /\ userSensitivityMs \in {0, 50, 100}
          /\ bpmBeats = <<>>
          /\ dpc = "detect"
       \/ /\ algorithm = "silence"
          /\ audioBuffer \in SilenceBuffers
          /\ userSensitivityMs \in SilenceSensitivities
          /\ bpmBeats = <<>>
          /\ dpc = "silence"
       \/ /\ algorithm = "energy"
          /\ audioBuffer = NoBuffer
          /\ userSensitivityMs = 100
          /\ bpmBeats \in BeatLists
          /\ dpc = "bpm"
    /\ peaks = <<>>
    /\ bpm = 0
    /\ IdleTimeline
    /\ MountedHook

\* beats = detectBeats(processingBuffer, currentAlgo, sensitivity)
DetectBeats ==
    /\ dpc = "detect"
    /\ peaks' = detectBeats(audioBuffer, algorithm, userSensitivityMs)
    /\ bpmBeats' = [k \in 1..Len(peaks') |-> OffsetToMs(peaks'[k], audioBuffer.sampleRate)]
    /\ dpc' = "bpm"
    /\ UNCHANGED <<audioBuffer, algorithm, userSensitivityMs, bpm>>
    /\ UNCHANGED <<tlvars, hookvars>>

\* beats = detectSilence(originalBuffer, sensitivity)
DetectSilence ==
    /\ dpc = "silence"
    /\ peaks' = detectSilence(audioBuffer, userSensitivityMs)
    /\ bpmBeats' = [k \in 1..Len(peaks') |-> OffsetToMs(peaks'[k], audioBuffer.sampleRate)]
    /\ dpc' = "bpm"
    /\ UNCHANGED <<audioBuffer, algorithm, userSensitivityMs, bpm>>
    /\ UNCHANGED <<tlvars, hookvars>>

\* const bpm = calculateBPM(beats)
CalculateBPM ==
    /\ dpc = "bpm"
    /\ bpm' = calculateBPM(bpmBeats)
    /\ dpc' = "done"
    /\ UNCHANGED <<audioBuffer, algorithm, userSensitivityMs, peaks, bpmBeats>>
    /\ UNCHANGED <<tlvars, hookvars>>

NextAnalysis ==
    \/ DetectBeats
    \/ DetectSilence
    \/ CalculateBPM

SpecAnalysis == InitAnalysis /\ [][NextAnalysis]_vars

----------------------------------------------------------------------------
(* useAudioAnalysis: the store, the two effects and their asynchronous tasks *)
(* A store change, the re-render it causes and the effects whose            *)
(* dependencies changed form one step.  An AudioBuffer is identified by the *)
(* id of the file it was decoded from (0 = null); a beat result by the      *)
(* settings key and the buffer it was computed from.                        *)

\* audio files dropped during one run
MaxAudio == 2

HookAlgorithms == {"energy", "drums", "silence"}
HookSensitivities == {0, 100}

NoBeats == [none |-> TRUE]

\* Dropzone: a new AudioTrack has a fresh id, no buffer and no beats
NewAudio(id) ==
    [id |-> id, buffer |-> 0, beats |-> NoBeats, bpm |-> NoBeats,
     detectedWithAlgorithm |-> "none"]

\* `${audio.id}-${syncSettings.algorithm}-${syncSettings.beatSensitivity}`
SettingsKey(a, ss) == <<a.id, ss.algorithm, ss.beatSensitivity>>

\* algorithms whose input is rendered through applyAudioFilter first
NeedsFilter(alg) ==
    \/ alg \in {"drums", "bass", "guitar", "vocals", "voice", "words", "sentences",
                "melody", "brass", "keys"}
    \/ alg \in {"combo-edm", "combo-clip"}

\* algorithms that analyse originalBuffer instead of processingBuffer
UsesOriginalBuffer(alg) == alg \in {"silence", "downbeat", "phrase", "intensity", "harmonic"}

\* the hook's state as one value
Hook ==
    [audio |-> storeAudio, syncSettings |-> syncSettings, status |-> status,
     processingRef |-> processingRef, lastProcessedRef |-> lastProcessedRef, tasks |-> tasks]

SetHook(h) ==
    /\ storeAudio' = h.audio
    /\ syncSettings' = h.syncSettings
    /\ status' = h.status
    /\ processingRef' = h.processingRef
    /\ lastProcessedRef' = h.lastProcessedRef
    /\ tasks' = h.tasks

\* variant: effect 1 without the processingRef guard
DecodeEffectUnguarded(h) ==
    IF h.audio = NoAudio \/ h.audio.buffer # 0 THEN h
    ELSE [h EXCEPT !.processingRef = TRUE,
                   !.status = "analyzing",
                   !.tasks = Append(@, [kind |-> "decode", file |-> h.audio.id])]

\* effect 1: decode once per file
DecodeEffect(h) ==
    IF h.audio = NoAudio \/ h.audio.buffer # 0 \/ h.processingRef THEN h
    ELSE [h EXCEPT !.processingRef = TRUE,
                   !.status = "analyzing",
                   !.tasks = Append(@, [kind |-> "decode", file |-> h.audio.id])]

\* the guards of effect 2
BeatEffectRuns(h) ==
    /\ h.audio # NoAudio
    /\ h.audio.buffer # 0
    /\ h.lastProcessedRef # SettingsKey(h.audio, h.syncSettings)
    /\ ~h.processingRef

\* the task processBeats leaves pending: the filter render, or the 50 ms timer
BeatTask(h) ==
    [kind |-> "beats",
     phase |-> IF NeedsFilter(h.syncSettings.algorithm) THEN "filter" ELSE "timer",
     settingsKey |-> SettingsKey(h.audio, h.syncSettings),
     currentAlgo |-> h.syncSettings.algorithm,
     sensitivity |-> h.syncSettings.beatSensitivity,
     buffer |-> h.audio.buffer,
     input |-> "original"]

\* effect 2: detect beats when buffer, id, algorithm or sensitivity changed
BeatEffect(h) ==
    IF ~BeatEffectRuns(h) THEN h
    ELSE [h EXCEPT !.processingRef = TRUE,
                   !.lastProcessedRef = SettingsKey(h.audio, h.syncSettings),
                   !.status = "analyzing",
                   !.tasks = Append(@, BeatTask(h))]

BufferDep(a) == IF a = NoAudio THEN -1 ELSE a.buffer
IdDep(a) == IF a = NoAudio THEN -1 ELSE a.id

\* dependency arrays: effect 1 [audio], effect 2 [buffer, id, algorithm, beatSensitivity]
RunEffects(h, audioChanged, old) ==
    LET h1 == IF audioChanged THEN DecodeEffect(h) ELSE h
    IN  IF \/ BufferDep(old.audio) # BufferDep(h.audio)
           \/ IdDep(old.audio) # IdDep(h.audio)
           \/ old.syncSettings.algorithm # h.syncSettings.algorithm
           \/ old.syncSettings.beatSensitivity # h.syncSettings.beatSensitivity
        THEN BeatEffect(h1)
        ELSE h1

RemoveAt(seq, k) == SubSeq(seq, 1, k - 1) \o SubSeq(seq, k + 1, Len(seq))

\* setBeats(beats, algorithm, bpm): a no-op without an audio track
setBeats(a, result, alg) ==
    IF a # NoAudio
    THEN [a EXCEPT !.beats = result, !.bpm = result, !.detectedWithAlgorithm = alg]
    ELSE NoAudio

\* setAudioBuffer(buffer)
setAudioBuffer(a, buffer) == IF a # NoAudio THEN [a EXCEPT !.buffer = buffer] ELSE NoAudio

\* the beats the timer callback computes for a task
BeatResult(t) ==
    [settingsKey |-> t.settingsKey,
     buffer |-> t.buffer,
     input |-> IF UsesOriginalBuffer(t.currentAlgo) THEN "original" ELSE t.input]

\* the user drops an audio file: setAudio(newAudio)
DropAudio ==
    /\ nextAudioId <= MaxAudio
    /\ SetHook(RunEffects([Hook EXCEPT !.audio = NewAudio(nextAudioId)], TRUE, Hook))
    /\ nextAudioId' = nextAudioId + 1
    /\ UNCHANGED <<tlvars, detvars>>

\* removeAudio()
RemoveAudio ==
    /\ storeAudio # NoAudio
    /\ SetHook(RunEffects([Hook EXCEPT !.audio = NoAudio], TRUE, Hook))
    /\ UNCHANGED nextAudioId
    /\ UNCHANGED <<tlvars, detvars>>

\* setSyncSettings({algorithm, beatSensitivity})
SetSyncSettings ==
    /\ \E alg \in HookAlgorithms, sens \in HookSensitivities :
         /\ [algorithm |-> alg, beatSensitivity |-> sens] # syncSettings
         /\ SetHook(RunEffects([Hook EXCEPT !.syncSettings =
                                    [algorithm |-> alg, beatSensitivity |-> sens]],
                               FALSE, Hook))
    /\ UNCHANGED nextAudioId
    /\ UNCHANGED <<tlvars, detvars>>

\* decodeAudioData resolves: setAudioBuffer, then finally
DecodeSucceeds ==
    /\ \E k \in 1..Len(tasks) :
         /\ tasks[k].kind = "decode"
         /\ SetHook(RunEffects([Hook EXCEPT !.audio = setAudioBuffer(@, tasks[k].file),
                                            !.processingRef = FALSE,
                                            !.tasks = RemoveAt(@, k)],
                               storeAudio # NoAudio, Hook))
    /\ UNCHANGED nextAudioId
    /\ UNCHANGED <<tlvars, detvars>>

\* arrayBuffer() or decodeAudioData rejects: catch, then finally
DecodeFails ==
    /\ \E k \in 1..Len(tasks) :
         /\ tasks[k].kind = "decode"
         /\ SetHook(RunEffects([Hook EXCEPT !.status = "idle",
                                            !.processingRef = FALSE,
                                            !.tasks = RemoveAt(@, k)],
                               FALSE, Hook))
    /\ UNCHANGED nextAudioId
    /\ UNCHANGED <<tlvars, detvars>>

\* applyAudioFilter resolves: processBeats goes on to setTimeout
FilterRenders ==
    /\ \E k \in 1..Len(tasks) :
         /\ tasks[k].kind = "beats" /\ tasks[k].phase = "filter"
         /\ SetHook([Hook EXCEPT !.tasks[k].phase = "timer", !.tasks[k].input = "filtered"])
    /\ UNCHANGED nextAudioId
    /\ UNCHANGED <<tlvars, detvars>>

\* the state after the catch block of processBeats
AfterFilterFailure(h, k) ==
    [h EXCEPT !.status = "ready", !.processingRef = FALSE, !.tasks = RemoveAt(@, k)]

FilterFailsAt(k) ==
    /\ tasks[k].kind = "beats" /\ tasks[k].phase = "filter"
    /\ SetHook(RunEffects(AfterFilterFailure(Hook, k), FALSE, Hook))
    /\ UNCHANGED nextAudioId
    /\ UNCHANGED <<tlvars, detvars>>

\* applyAudioFilter rejects (startRendering fails)
FilterFails == \E k \in 1..Len(tasks) : FilterFailsAt(k)

\* the state after the setTimeout callback of task k
AfterTimer(h, k) ==
    [h EXCEPT !.audio = setBeats(@, BeatResult(h.tasks[k]), h.tasks[k].currentAlgo),
              !.status = "ready",
              !.processingRef = FALSE,
              !.tasks = RemoveAt(@, k)]

TimerFiresAt(k) ==
    /\ tasks[k].kind = "beats" /\ tasks[k].phase = "timer"
    /\ SetHook(RunEffects(AfterTimer(Hook, k), storeAudio # NoAudio, Hook))
    /\ UNCHANGED nextAudioId
    /\ UNCHANGED <<tlvars, detvars>>

\* the 50 ms timer fires: detect, calculateBPM, setBeats, setStatus('ready')
TimerFires == \E k \in 1..Len(tasks) : TimerFiresAt(k)

InitHook ==
    /\ MountedHook
    /\ IdleTimeline
    /\ IdleDetect

NextHook ==
    \/ DropAudio
    \/ RemoveAudio
    \/ SetSyncSettings
    \/ DecodeSucceeds
    \/ DecodeFails
    \/ FilterRenders
    \/ FilterFails
    \/ TimerFires

SpecHook == InitHook /\ [][NextHook]_vars

\* a pending promise settles and a pending timer fires; the user need not act
SpecHookFair ==
    /\ SpecHook
    /\ WF_vars(DecodeSucceeds \/ DecodeFails)
    /\ WF_vars(FilterRenders \/ FilterFails)
    /\ WF_vars(TimerFires)

----------------------------------------------------------------------------
(* Properties of generateTimeline                                          *)

Returned == pc = "done"

\* two source or timeline ranges [start, end) share a span
Overlap(a, b) == a.start < b.end /\ b.start < a.end

PairwiseDisjoint(ranges) ==
    \A j, k \in 1..Len(ranges) : j # k => ~Overlap(ranges[j], ranges[k])

ClipDurationsAgree(c) ==
    /\ c.duration = c.timelineEnd - c.timelineStart
    /\ c.duration = c.sourceEnd - c.sourceStart
    /\ c.duration > 0

Contiguous(tl) ==
    \A k \in 1..(Len(tl) - 1) : tl[k].timelineEnd = tl[k + 1].timelineStart

StrictlyIncreasing(s) == \A k \in 1..(Len(s) - 1) : s[k] < s[k + 1]

\* C1: every returned timeline has clips with duration = timelineEnd - timelineStart
\* = sourceEnd - sourceStart > 0 and consecutive clips are contiguous.
C1_ClipsContiguous ==
    Returned =>
        /\ \A k \in 1..Len(timeline) : ClipDurationsAgree(timeline[k])
        /\ Contiguous(timeline)

\* C2: in beat-locked and metronome modes the finished cut-point list begins with 0,
\* is strictly increasing and ends exactly at totalDuration.
C2_CutPointsWellFormed ==
    pc \in {"clips", "done"} /\ cutPoints # <<>> =>
        /\ cutPoints[1] = 0
        /\ StrictlyIncreasing(cutPoints)
        /\ Last(cutPoints) = TotalDuration(audio)

C2_Witness ==
    /\ pc = "clips"
    /\ settings.videoMode = "beat-locked"
    /\ settings.durationVariance > 0
    /\ settings.rhythmSegments # <<>>
    /\ Len(cutPoints) >= 4
    /\ Last(beats) < TotalDuration(audio)

\* the scenario of C3: six beats 0.5 s apart, 3.0 s track, every 2nd beat, no variance
C3_Scenario ==
    /\ audio # NoAudio
    /\ media # <<>>
    /\ settings.videoMode = "beat-locked"
    /\ beats = <<500, 1000, 1500, 2000, 2500, 3000>>
    /\ TotalDuration(audio) = 3000
    /\ settings.skipEveryN = 2
    /\ settings.durationVariance = 0
    /\ settings.rhythmSegments = <<>>
    /\ pc \in {"clips", "done"}

C4_CoversTrack ==
    Returned /\ media # <<>> /\ audio # NoAudio
             /\ settings.videoMode \in {"beat-locked", "metronome", "random-loop"} =>
        /\ timeline # <<>>
        /\ timeline[1].timelineStart = 0
        /\ Last(timeline).timelineEnd = TotalDuration(audio)
        /\ Contiguous(timeline)

IsVideoId(id) == \E k \in 1..Len(media) : media[k].id = id /\ media[k].type = "video"

DurationOfId(id) == media[CHOOSE k \in 1..Len(media) : media[k].id = id].duration

\* C5 as stated: the used ranges of a video item for which findBestSourceRange never
\* returned null are pairwise non-overlapping.
C5_Original ==
    \A id \in MediaIds :
        IsVideoId(id) /\ id \notin nullSignalled => PairwiseDisjoint(usedMediaSegments[id])

\* every range recorded for the item was allocated from a free interval: longer than
\* the 10 ms tolerance and no longer than the margin-trimmed span
AllocatedFromFree(id) ==
    \A k \in 1..Len(usedMediaSegments[id]) :
        LET len == usedMediaSegments[id][k].end - usedMediaSegments[id][k].start
        IN  len > 10 /\ len <= EffectiveDuration(DurationOfId(id))

\* C5 amended: the used ranges of a video item are pairwise non-overlapping when
\* findBestSourceRange never returned null for it and every clip taken from it was
\* longer than 0.01 s and no longer than 90% of the item's duration.
C5_UsedRangesDisjoint ==
    \A id \in MediaIds :
        IsVideoId(id) /\ id \notin nullSignalled /\ AllocatedFromFree(id)
            => PairwiseDisjoint(usedMediaSegments[id])

C5_Witness ==
    \E id \in MediaIds :
        /\ IsVideoId(id)
        /\ id \notin nullSignalled
        /\ AllocatedFromFree(id)
        /\ Len(usedMediaSegments[id]) >= 3

SourceRange(c) == [start |-> c.sourceStart, end |-> c.sourceEnd]

\* C6: one 10 s video, smart crop, three 2 s slots: the three source ranges are
\* pairwise non-overlapping.
C6_ThreeClipsDisjoint ==
    /\ Returned
    /\ media = <<Video(1, 10000)>>
    /\ settings.cropMode = "smart"
    /\ Len(timeline) = 3
    /\ \A k \in 1..3 : timeline[k].duration = 2000
    => PairwiseDisjoint([k \in 1..3 |-> SourceRange(timeline[k])])

----------------------------------------------------------------------------
(* Properties of detectBeats and calculateBPM                              *)

Analysed == dpc \in {"bpm", "done"} /\ audioBuffer # NoBuffer

\* C7: the timestamps detectBeats returns are strictly increasing and adjacent ones are
\* at least the effective debounce interval apart (10 ms when the sensitivity is 0,
\* the sensitivity otherwise); offsets are in samples, so seconds = offset / sampleRate.
C7_BeatsDebounced ==
    Analysed =>
        \A k \in 1..(Len(peaks) - 1) :
            /\ peaks[k] < peaks[k + 1]
            /\ (peaks[k + 1] - peaks[k]) * 1000 >=
                   (IF userSensitivityMs = 0 THEN 10 ELSE userSensitivityMs)
                       * audioBuffer.sampleRate

C7_Witness ==
    /\ Analysed
    /\ Len(peaks) >= 2
    /\ userSensitivityMs = 50

\* the valid intervals of a beat list, and order statistics defined by counting
ValidIntervalsOf(bs) == SelectSeq(Intervals(bs), LAMBDA x : x > 200 /\ x < 2000)

CountBelow(v, x) == Cardinality({k \in 1..Len(v) : v[k] < x})
CountUpTo(v, x) == Cardinality({k \in 1..Len(v) : v[k] <= x})

\* the value at 0-based position j of v in ascending order
OrderStat(v, j) ==
    CHOOSE x \in {v[k] : k \in 1..Len(v)} : CountBelow(v, x) <= j /\ j < CountUpTo(v, x)

\* r = round(60 / (num/den) s), the interval num/den being in ms
IsRounded(r, num, den) ==
    (2 * r - 1) * num <= 120000 * den /\ 120000 * den < (2 * r + 1) * num

ClampOfRound(result, num, den) ==
    \E r \in 0..600 : IsRounded(r, num, den) /\ result = Min(300, Max(40, r))

ConstantSpacing(bs) ==
    Len(bs) >= 2 /\ \A k \in 1..(Len(bs) - 1) : bs[k + 1] - bs[k] = bs[2] - bs[1]

\* the parts of C8 that do not depend on which median is meant
C8_Common(bs, result) ==
    /\ Len(bs) < 2 \/ ValidIntervalsOf(bs) = <<>> => result = 0
    /\ ConstantSpacing(bs) /\ bs[2] - bs[1] > 200 /\ bs[2] - bs[1] < 2000
           => ClampOfRound(result, bs[2] - bs[1], 1)
    /\ result = 0 \/ (result >= 40 /\ result <= 300)

----------------------------------------------------------------------------
(* Properties of useAudioAnalysis                                          *)

\* C9: when the filter render of an analysis fails, detection of that analysis still
\* runs on the unfiltered buffer: its timer task is pending after the failure.
C9_FilterFailureFallsBack ==
    [][\A k \in 1..Len(tasks) :
          FilterFailsAt(k) =>
              \E j \in 1..Len(tasks') :
                  /\ tasks'[j].kind = "beats"
                  /\ tasks'[j].phase = "timer"
                  /\ tasks'[j].input = "original"
                  /\ tasks'[j].settingsKey = tasks[k].settingsKey]_vars

\* C10: a beat result is written to the store only when the settings key it was
\* computed for equals the current key at the moment the analysis completes.
C10_NoStaleWrite ==
    [][\A k \in 1..Len(tasks) :
          TimerFiresAt(k) /\ storeAudio # NoAudio =>
              tasks[k].settingsKey = SettingsKey(storeAudio, syncSettings)]_vars

\* the hook has nothing in flight
HookIdle(ts, ref) == ts = <<>> /\ ~ref

\* C11: when an analysis completes and leaves the hook idle with a decoded buffer,
\* the stored beats are those computed for the current audio id, algorithm and
\* sensitivity (a settings change made while it was in flight has been re-analysed).
C11_IdleBeatsAreCurrent ==
    [][\A k \in 1..Len(tasks) :
          /\ TimerFiresAt(k)
          /\ HookIdle(tasks', processingRef')
          /\ storeAudio' # NoAudio
          /\ storeAudio'.buffer # 0
          => /\ storeAudio'.beats # NoBeats
             /\ storeAudio'.beats.settingsKey = SettingsKey(storeAudio', syncSettings')]_vars

----------------------------------------------------------------------------
(* Further properties of generateTimeline                                  *)

\* C12: with an empty media list or no audio track generateTimeline goes from its
\* entry straight to the return of an empty list: no cut points are computed and no
\* used-range state is touched.
C12_EmptyInputReturnsEmpty ==
    Len(media) = 0 \/ audio = NoAudio =>
        /\ pc \in {"start", "done", "idle"}
        /\ timeline = <<>>
        /\ cutPoints = <<>>
        /\ beats = <<>>
        /\ nullSignalled = {}
        /\ \A id \in MediaIds : usedMediaSegments[id] = <<>>

C12_Witness ==
    /\ pc = "done"
    /\ Len(media) = 0
    /\ audio # NoAudio
    /\ Len(audio.beats) > 0
    /\ timeline = <<>>

\* the first findBestSourceRange call for a clip of length d from item id returns null
Saturated(id, d) ==
    FindBestSourceRange(DurationOfId(id), d, JsBool(settings.cropMode = "smart"),
                        usedMediaSegments[id]) = {Null}

\* the beat-mode clip loop is at a slot it will not skip
AtSlot == pc = "clips" /\ i < Len(cutPoints) - 1 /\ ~TinyGap(cutPoints[i + 2] - cutPoints[i + 1])

SlotMedia == CycledMedia(media, videoIdx)

\* C13: when findBestSourceRange returns null for a video item, the clip is still
\* emitted (in the beat modes the slot is never dropped), and afterwards the item's
\* used ranges are exactly the one range of the newly emitted clip.
C13_SaturationClearsHistory ==
    [][/\ (/\ AtSlot
           /\ SlotMedia.type = "video"
           /\ Saturated(SlotMedia.id, cutPoints[i + 2] - cutPoints[i + 1])
           => /\ Len(timeline') = Len(timeline) + 1
              /\ Last(timeline').videoId = SlotMedia.id
              /\ Last(timeline').timelineStart = cutPoints[i + 1]
              /\ Last(timeline').timelineEnd = cutPoints[i + 2])
       /\ (/\ Len(timeline') = Len(timeline) + 1
           /\ Last(timeline').type = "video"
           /\ Saturated(Last(timeline').videoId, Last(timeline').duration)
           => /\ usedMediaSegments'[Last(timeline').videoId] = <<SourceRange(Last(timeline'))>>
              /\ Last(timeline').sourceStart >= 0
              /\ Last(timeline').sourceEnd <= DurationOfId(Last(timeline').videoId))]_vars

C13_Witness ==
    \E id \in nullSignalled :
        /\ Len(timeline) >= 3
        /\ Last(timeline).videoId = id
        /\ usedMediaSegments[id] = <<SourceRange(Last(timeline))>>

\* the offset the crop mode prescribes inside the free interval f for a clip of length d
CropOffset(f, d, mode) ==
    CASE mode = "start"  -> f.start
      [] mode = "end"    -> f.end - d
      [] mode = "center" -> f.start + (f.end - f.start - d) \div 2
      [] mode = "golden" -> f.start + ((f.end - f.start - d) * 382) \div 1000

\* the free intervals the allocation of a clip of length d from item id chooses from
\* (those of the cleared history when the first call returned null)
IntervalsFor(id, d) ==
    ValidIntervals(FreeIntervals(DurationOfId(id),
                                 IF Saturated(id, d) THEN <<>> ELSE usedMediaSegments[id]),
                   d)

\* C14: under cropMode start, end, center and golden the source start of an allocated
\* video clip is the offset the mode prescribes inside one of the free intervals that
\* fit the clip, whatever the random draws.
C14_CropModeFixesOffset ==
    [][/\ Len(timeline') = Len(timeline) + 1
       /\ Last(timeline').type = "video"
       /\ settings.cropMode \in FixedCropModes
       /\ EffectiveDuration(DurationOfId(Last(timeline').videoId)) >= Last(timeline').duration
       => \E j \in 1..Len(IntervalsFor(Last(timeline').videoId, Last(timeline').duration)) :
             Last(timeline').sourceStart =
                 CropOffset(IntervalsFor(Last(timeline').videoId, Last(timeline').duration)[j],
                            Last(timeline').duration, settings.cropMode)]_vars

\* C15: in sequential-once mode the k-th clip uses the k-th media item, no item is
\* used twice, and generation has stopped once media.length clips exist: the function
\* returns either because the time ran out or because the items did.
C15_SequentialOnce ==
    /\ pc \in {"legacy", "done"}
    /\ Len(media) # 0 /\ audio # NoAudio
    /\ settings.videoMode = "sequential-once"
    =>  /\ Len(timeline) <= Len(media)
        /\ \A k \in 1..Len(timeline) : timeline[k].videoId = media[k].id
        /\ \A j, k \in 1..Len(timeline) : j # k => timeline[j].videoId # timeline[k].videoId
        /\ Returned => Len(timeline) = Len(media) \/ currentTime >= TotalDuration(audio)

C15_Witness ==
    /\ Returned
    /\ settings.videoMode = "sequential-once"
    /\ Len(media) = 2
    /\ Len(timeline) = 2
    /\ Last(timeline).timelineEnd < TotalDuration(audio)
    /\ currentTime < TotalDuration(audio)

\* C16: in random-loop mode with more than one media item no two consecutive clips
\* use the same item.
C16_NoImmediateRepeat ==
    /\ pc \in {"legacy", "done"}
    /\ Len(media) > 1 /\ audio # NoAudio
    /\ settings.videoMode = "random-loop"
    =>  \A k \in 1..(Len(timeline) - 1) : timeline[k].videoId # timeline[k + 1].videoId

C16_Witness ==
    /\ Returned
    /\ Len(media) = 3 /\ audio # NoAudio
    /\ settings.videoMode = "random-loop"
    /\ Len(timeline) >= 3
    /\ timeline[1].videoId = timeline[3].videoId

\* the clips were built from a cut-point list (beat-locked or metronome mode)
FromCutPoints == pc \in {"clips", "done"} /\ cutPoints # <<>>

\* C17: in beat-locked and metronome modes the k-th emitted clip, k counted from 0
\* over the emitted clips, uses media[k mod media.length].
C17_MediaCycled ==
    FromCutPoints =>
        \A k \in 1..Len(timeline) :
            /\ timeline[k].videoId = media[((k - 1) % Len(media)) + 1].id
            /\ timeline[k].videoIndex = ((k - 1) % Len(media)) + 1

C17_Witness ==
    /\ FromCutPoints
    /\ Returned
    /\ Len(media) >= 2
    /\ Len(timeline) > Len(media)
    /\ Len(timeline) < Len(cutPoints) - 1

\* C18: every clip of an image has sourceStart = 0 and sourceEnd = its clip duration,
\* whatever the crop mode, the video mode and the allocations before it.
C18_ImagesStartAtZero ==
    \A k \in 1..Len(timeline) :
        timeline[k].type = "image" =>
            /\ timeline[k].sourceStart = 0
            /\ timeline[k].sourceEnd = timeline[k].duration
            /\ timeline[k].duration = timeline[k].timelineEnd - timeline[k].timelineStart

C18_Witness ==
    /\ Returned
    /\ \E k \in 2..Len(timeline) :
          /\ timeline[k].type = "image"
          /\ timeline[k - 1].type = "video"
          /\ timeline[k - 1].sourceStart > 0
          /\ timeline[k].duration # 5000
    /\ settings.cropMode \in FixedCropModes

----------------------------------------------------------------------------
(* Further properties of detectBeats                                       *)

IsSilent(buffer) == \A k \in 1..Len(buffer.amps) : buffer.amps[k] = 0

\* C19: for an all-zero buffer of any length detectBeats returns the empty sequence,
\* for every algorithm and sensitivity; in particular for 2 s of silence at 44100 Hz.
C19_SilenceHasNoBeats ==
    dpc \in {"bpm", "done"} /\ IsSilent(audioBuffer) => peaks = <<>>

C19_Witness ==
    /\ dpc = "done"
    /\ IsSilent(audioBuffer)
    /\ algorithm = "energy"
    /\ audioBuffer.sampleRate = 44100
    /\ Len(audioBuffer.amps) = HopsOf(2 * 44100, "energy")
    /\ peaks = <<>>
    /\ bpm = 0

----------------------------------------------------------------------------
(* Termination of the beat-locked loop                                     *)

\* C20: at every iteration of the beat-locked loop the step added to the beat index
\* is at least 1, for every skipEveryN (global or rhythm-segment override) and with
\* or without durationVariance, so the loop terminates.
C20_StepAtLeastOne ==
    pc = "beatLocked" /\ currentBeatIndex < Len(beats) =>
        \A delta \in StepDeltas(CurrentSkipN(settings, beats[currentBeatIndex + 1]),
                                settings.durationVariance) :
            VariedStep(CurrentSkipN(settings, beats[currentBeatIndex + 1]), delta,
                       settings.durationVariance) >= 1

----------------------------------------------------------------------------
(* Termination of the legacy loop                                          *)

\* C21: every iteration of the legacy loop that goes on strictly increases
\* currentTime, by more than 0.01 s: a clip of 0.01 s or less is followed by the
\* forced 0.5 s advance.  The loop therefore ends.
C21_LegacyTimeAdvances ==
    [][pc = "legacy" /\ pc' = "legacy" /\ Len(timeline') = Len(timeline) + 1
          => /\ currentTime' > currentTime + 10
             /\ Last(timeline').duration <= 10
                   => currentTime' = Last(timeline').timelineEnd + 500]_vars

C21_Witness ==
    /\ pc = "legacy"
    /\ settings.maxDuration = 0
    /\ Len(timeline) >= 2
    /\ Last(timeline).duration = 0
    /\ currentTime = Last(timeline).timelineEnd + 500

----------------------------------------------------------------------------
(* detectSilence against the debounce rule of detectBeats                  *)

\* the rule of detectBeats on the first n candidates: a timestamp is accepted only if
\* it is more than the effective debounce interval after the last accepted one
RECURSIVE DebouncedByAccepted(_, _, _, _)
DebouncedByAccepted(candidates, n, sampleRate, sensitivityMs) ==
    IF n = 0 THEN <<>>
    ELSE LET before == DebouncedByAccepted(candidates, n - 1, sampleRate, sensitivityMs)
         IN  IF PassesDebounce(before, candidates[n], sampleRate, sensitivityMs)
             THEN Append(before, candidates[n])
             ELSE before

SilenceAnalysed == dpc \in {"bpm", "done"} /\ algorithm = "silence"

\* C22: what detectSilence returns equals the debounce rule of detectBeats applied to
\* the sound-resume timestamps that follow a silence of at least 0.3 s, for every
\* sensitivity.
C22_SilenceDebouncedAsOnsets ==
    SilenceAnalysed =>
        peaks = DebouncedByAccepted(SilenceStarts(audioBuffer), Len(SilenceStarts(audioBuffer)),
                                    audioBuffer.sampleRate, userSensitivityMs)

----------------------------------------------------------------------------
(* Clip lengths of the legacy loop                                         *)

----------------------------------------------------------------------------
(* Where the source range of a video clip lies                             *)

\* the three cases of C24 for a clip c of a video item lasting d
InsideMargins(c, d) == 20 * c.sourceStart >= d /\ 20 * c.sourceEnd <= 19 * d
Centred(c, d) == c.sourceStart = (d - c.duration) \div 2
SourcePlaced(c, d) ==
    IF 10 * c.duration <= 9 * d THEN InsideMargins(c, d)
    ELSE IF c.duration < d THEN Centred(c, d)
    ELSE c.sourceStart = 0

\* C24: a video clip no longer than 90% of its item has its source range inside
\* [5%, 95%] of the item, in every mode and after a saturation reset; a longer clip
\* that is shorter than the item is centred; any other clip starts at offset 0.
C24_SourceRangePlaced ==
    \A k \in 1..Len(timeline) :
        timeline[k].type = "video" => SourcePlaced(timeline[k], DurationOfId(timeline[k].videoId))

\* the three cases in one timeline
C24_Witness ==
    /\ \E k \in 1..Len(timeline) :
          /\ timeline[k].type = "video"
          /\ 10 * timeline[k].duration <= 9 * DurationOfId(timeline[k].videoId)
          /\ timeline[k].sourceStart > 0
    /\ \E k \in 1..Len(timeline) :
          /\ timeline[k].type = "video"
          /\ 10 * timeline[k].duration > 9 * DurationOfId(timeline[k].videoId)
          /\ timeline[k].duration < DurationOfId(timeline[k].videoId)
          /\ timeline[k].sourceStart > 0
    /\ \E k \in 1..Len(timeline) :
          /\ timeline[k].type = "video"
          /\ timeline[k].duration >= DurationOfId(timeline[k].videoId)

\* a clip placed after the history of its item was cleared
C24_WitnessAfterReset ==
    /\ nullSignalled # {}
    /\ \E k \in 1..Len(timeline) :
          /\ timeline[k].type = "video"
          /\ timeline[k].videoId \in nullSignalled
          /\ 10 * timeline[k].duration <= 9 * DurationOfId(timeline[k].videoId)

----------------------------------------------------------------------------
(* Overlapping rhythm segments                                             *)

\* the segments active at t, as indices into the list
SegmentsAt(segs, t) == {k \in 1..Len(segs) : segs[k].startTime <= t /\ t < segs[k].endTime}

\* the step C25 states: the override of the last active segment, else the global value
LastSegmentSkip(s, t) ==
    LET hits == SegmentsAt(s.rhythmSegments, t)
    IN  IF hits = {} THEN (IF s.skipEveryN = 0 THEN 1 ELSE s.skipEveryN)
        ELSE s.rhythmSegments[CHOOSE k \in hits : \A m \in hits : m <= k].skipEveryN

\* C25: without variance the beat-locked loop steps from the beat at time t by the
\* skipEveryN of the rhythm segment active at t, the last one in the list when several
\* overlap at t, and by the global skipEveryN when none is active.
C25_LastSegmentWins ==
    [][pc = "beatLocked" /\ currentBeatIndex < Len(beats) /\ settings.durationVariance = 0
          => currentBeatIndex' - currentBeatIndex
                 = LastSegmentSkip(settings, beats[currentBeatIndex + 1])]_vars

----------------------------------------------------------------------------
(* The metronome grid without variance                                     *)

MetronomeDone ==
    /\ pc \in {"clips", "done"}
    /\ Len(media) # 0 /\ audio # NoAudio
    /\ settings.videoMode = "metronome"
    /\ settings.manualBpm # 0 \/ audio.bpm # 0 \/ Len(beats) > 0
    /\ settings.durationVariance = 0

\* manualBpm if set, else the detected bpm, else 120
GridBpm ==
    IF settings.manualBpm # 0 THEN settings.manualBpm
    ELSE IF audio.bpm # 0 THEN audio.bpm ELSE 120

\* 60 / bpm * skipEveryN in ms
GridInterval == (60000 \div GridBpm) * (IF settings.skipEveryN = 0 THEN 1 ELSE settings.skipEveryN)

\* the first detected beat when it is earlier than 0.5 s, 0 otherwise
GridStart == IF Len(beats) > 0 /\ beats[1] < 500 THEN beats[1] ELSE 0

GridTotal == IF audio.duration = 0 THEN 1000 ELSE audio.duration

\* C26 as stated: the grid starts at GridStart (the cut point after 0 when GridStart is
\* not 0), every later cut point but the final one lies exactly one interval after the
\* previous cut point, and the final cut point is totalDuration.
C26_Original ==
    MetronomeDone =>
        LET first == IF GridStart # 0 THEN 2 ELSE 1
        IN  /\ Len(cutPoints) >= first
            /\ cutPoints[1] = 0
            /\ cutPoints[first] = GridStart
            /\ \A k \in (first + 1)..(Len(cutPoints) - 1) :
                   cutPoints[k] = cutPoints[k - 1] + GridInterval
            /\ Last(cutPoints) = GridTotal

\* the grid points GridStart + n * interval that do not exceed totalDuration
GridPoints ==
    [n \in 1..((GridTotal - GridStart) \div GridInterval) |-> GridStart + n * GridInterval]

ExpectedCuts ==
    LET grid == <<0>> \o (IF GridStart > 50 THEN <<GridStart>> ELSE <<>>) \o GridPoints
    IN  IF Last(grid) < GridTotal THEN Append(grid, GridTotal) ELSE grid

\* C26: the cut points are 0, then the first detected beat when it lies in
\* (0.05 s, 0.5 s), then the points first-beat-or-0 + n * 60/bpm*skipEveryN up to
\* totalDuration, then totalDuration when the last of these is earlier; a first beat of
\* at most 0.05 s is the origin of the grid without being a cut point.  (Intervals of
\* more than 0.05 s.)
C26_GridFromStart ==
    MetronomeDone /\ GridInterval > 50 => cutPoints = ExpectedCuts

C26_Witness ==
    /\ MetronomeDone
    /\ pc = "done"
    /\ GridInterval > 50
    /\ GridStart > 0 /\ GridStart <= 50
    /\ Len(cutPoints) >= 4
    /\ cutPoints[2] = GridStart + GridInterval

----------------------------------------------------------------------------
(* Mutual exclusion of the analysis tasks                                  *)

\* C27: at most one analysis task (a decode or a beat detection) is in flight, and
\* the processing flag is set for as long as it is.
C27_OneTaskInFlight ==
    /\ Len(tasks) <= 1
    /\ Len(tasks) = 1 => processingRef

\* a second file was dropped while the first was being decoded: no second task
C27_Witness ==
    /\ Len(tasks) = 1
    /\ tasks[1].kind = "decode"
    /\ processingRef
    /\ storeAudio # NoAudio
    /\ storeAudio.buffer = 0
    /\ storeAudio.id # tasks[1].file

----------------------------------------------------------------------------
(* Progress of the analysis                                                *)


\* C28: every analysis task that starts eventually finishes, the processing flag is
\* cleared and the status leaves 'analyzing': the hook never stays in 'analyzing'.
C28_AnalysisCompletes ==
    /\ processingRef ~> ~processingRef
    /\ status = "analyzing" ~> status # "analyzing"

----------------------------------------------------------------------------
(* What emitting a clip changes in the usage histories                     *)

\* C29: a step that emits a clip changes the used-range history of no media item
\* other than the clip's own, also when that item's history is reset, and of no item
\* at all when the clip is an image; a step that emits no clip changes no history.
C29_OnlyOwnHistoryChanges ==
    [][/\ Len(timeline') = Len(timeline) + 1
          => \A id \in MediaIds :
                 id # Last(timeline').videoId \/ Last(timeline').type = "image"
                     => usedMediaSegments'[id] = usedMediaSegments[id]
       /\ Len(timeline') = Len(timeline) => usedMediaSegments' = usedMediaSegments]_vars

\* an item was reset while another video item kept its history, three clips emitted
C29_Witness ==
    /\ Len(timeline) >= 3
    /\ \E id \in nullSignalled, other \in MediaIds \ nullSignalled :
          /\ IsVideoId(other)
          /\ usedMediaSegments[other] # <<>>
          /\ Len(usedMediaSegments[id]) = 1

----------------------------------------------------------------------------
(* Every clip lies inside the track                                        *)

\* the preconditions of C30 on the beat list in use and on the settings
BeatsInsideTrack ==
    /\ audio # NoAudio
    /\ \A k \in 1..Len(beats) : 0 <= beats[k] /\ beats[k] <= TotalDuration(audio)
    /\ \A k \in 1..(Len(beats) - 1) : beats[k] <= beats[k + 1]
    /\ settings.minDuration >= 0
    /\ settings.maxDuration > 0

\* C30: in every videoMode, for a sorted beat list inside [0, totalDuration],
\* minDuration >= 0 and maxDuration > 0, every emitted clip has
\* 0 <= timelineStart < timelineEnd <= totalDuration.
C30_ClipsInsideTrack ==
    BeatsInsideTrack =>
        \A k \in 1..Len(timeline) :
            /\ 0 <= timeline[k].timelineStart
            /\ timeline[k].timelineStart < timeline[k].timelineEnd
            /\ timeline[k].timelineEnd <= TotalDuration(audio)

\* a legacy timeline with a clip after a forced advance and a clip cut at
\* currentTime + maxDuration
C30_Witness ==
    /\ BeatsInsideTrack
    /\ pc = "done"
    /\ settings.videoMode = "random-loop"
    /\ \E k \in 1..(Len(timeline) - 1) :
          /\ timeline[k].duration <= 10
          /\ timeline[k + 1].timelineStart = timeline[k].timelineEnd + 500
    /\ \E k \in 1..Len(timeline) :
          /\ timeline[k].duration = settings.maxDuration
          /\ timeline[k].timelineEnd < TotalDuration(audio)
          /\ \A b \in 1..Len(beats) : beats[b] # timeline[k].timelineEnd

====
